---- MODULE Spec2Model ----
(***************************************************************************)
(* pi-queue-picker: the message-delivery queue, the Mode Picker and Queue  *)
(* Editor popups, and the flush policy of the extension's event handlers.  *)
(*                                                                         *)
(* The controller is the most recent snapshot of the extension entry       *)
(* (src/unnamed/part_001); the Queue Store operations are                  *)
(* src/extensions/buffer.ts; the two popup reducers are                    *)
(* src/extensions/screens/queue-editor.ts (which also holds the mode       *)
(* picker reducer).                                                        *)
(*                                                                         *)
(* Sequences are 1-based here, arrays 0-based in the source: the editor's  *)
(* `selected` keeps the source's 0-based value and items[selected] is      *)
(* written items[selected + 1].                                            *)
(***************************************************************************)
EXTENDS Integers, Sequences, FiniteSets, TLC

VARIABLES
    buffer,        \* let buffer: BufferedMessage[]       (the live Queue)
    lastMode,      \* let lastMode: "steer" | "followUp"
    editingQueue,  \* let editingQueue: boolean
    uiRef,         \* let uiRef: any = null               (TRUE once set)
    idCounter,     \* let idCounter = 0                   (module level)
    widget,        \* host: is the "queue-picker" widget set
    idle,          \* host: ctx.isIdle()
    picker,        \* the open Mode Picker popup, or NoPopup
    editor,        \* the open Queue Editor popup, or NoPopup
    sent,          \* host: the calls of pi.sendUserMessage, in order
    uiCalls,       \* host: the ctx.ui calls (notify, setEditorText) of the last handler
    ev             \* the handler step that ran last

vars == <<buffer, lastMode, editingQueue, uiRef, idCounter, widget, idle,
          picker, editor, sent, uiCalls, ev>>

----
(* Bounds *)

\* interactive busy-time submissions that reach the picker and are accepted
MaxMsgs == 2

\* length of the texts submitted when the bypass predicate is exercised
MaxTextLen == 4

\* entries in the Queue that a Queue Editor session is opened on
MaxItems == 3

----
(* Vocabulary *)

Modes == {"steer", "followUp"}

NoPopup == [open |-> FALSE]

\* id of a dispatch that never was a Queue entry (a picker steer)
NoId == -1

\* texts are sequences of characters
Blank == " "

\* texts a user submits: a message and a whitespace-only line
InputTexts == {<<"a">>, <<Blank>>}

\* values the inline text editor can hold when the user has typed in it
\* (the entry's own text, which openEditor seeds it with, is the other one)
DraftValues == {<<Blank>>, <<Blank, "c">>}

Sources == {"interactive", "extension"}

\* key tokens delivered to a popup's handleInput
Keys == {"tab", "up", "down", "left", "right", "return", "escape",
         "j", "k", "e", "d", "x"}

\* the handler made no ctx.ui call
NoCalls == [call |-> "none", kind |-> "-", text |-> <<>>]

\* ctx.ui.notify(`${kind}: ${text}`, "info")
Notify(kind, text) == [call |-> "notify", kind |-> kind, text |-> text]

\* ctx.ui.setEditorText(text)
SetEditorText(text) == [call |-> "setEditorText", kind |-> "-", text |-> text]

\* a handler step: which handler, the key token or submission it was given,
\* and the terminal capability the input handler saw
Ev(name, key, text, src, term) ==
    [name |-> name, key |-> key, text |-> text, src |-> src, term |-> term]

Min(a, b) == IF a < b THEN a ELSE b

Max(a, b) == IF a > b THEN a ELSE b

----
(* String.prototype.trim on a sequence of characters *)

RECURSIVE TrimStart(_)
TrimStart(s) ==
    IF s # <<>> /\ Head(s) = Blank THEN TrimStart(Tail(s)) ELSE s

RECURSIVE TrimEnd(_)
TrimEnd(s) ==
    IF s # <<>> /\ s[Len(s)] = Blank THEN TrimEnd(SubSeq(s, 1, Len(s) - 1)) ELSE s

Trim(s) == TrimEnd(TrimStart(s))

----
(* Bypass predicate (slash commands) *)

Letters ==
    {"a", "b", "c", "d", "e", "f", "g", "h", "i", "j", "k", "l", "m",
     "n", "o", "p", "q", "r", "s", "t", "u", "v", "w", "x", "y", "z",
     "A", "B", "C", "D", "E", "F", "G", "H", "I", "J", "K", "L", "M",
     "N", "O", "P", "Q", "R", "S", "T", "U", "V", "W", "X", "Y", "Z"}

Digits == {"0", "1", "2", "3", "4", "5", "6", "7", "8", "9"}

\* characters of a command name after the slash
NameChars == Letters \cup Digits \cup {":", "_", "-"}

\* the index of the first character of s at or after i that is no
\* command-name character; Len(s) + 1 when there is none
RECURSIVE commandNameEnd(_, _)
commandNameEnd(s, i) ==
    IF i <= Len(s) /\ s[i] \in NameChars THEN commandNameEnd(s, i + 1) ELSE i

\* variant: every text that starts with a slash is a command
shouldBypassPicker_anySlash(text) ==
    LET trimmed == Trim(text)
    IN trimmed # <<>> /\ Head(trimmed) = "/"

\* shouldBypassPicker: the trimmed text starts with "/" and the command
\* name runs up to a blank or the end of the text
shouldBypassPicker(text) ==
    LET trimmed == Trim(text)
        stop == commandNameEnd(trimmed, 2)
    IN /\ trimmed # <<>>
       /\ Head(trimmed) = "/"
       /\ (stop > Len(trimmed) \/ trimmed[stop] = Blank)

\* the cases of the shouldBypassPicker tests, with the result each expects
TestCases ==
    {
      [text |-> <<"/", "m", "o", "d", "e", "l">>,
       bypass |-> TRUE],
      [text |-> <<"/", "m", "o", "d", "e", "l", Blank, "q">>,
       bypass |-> TRUE],
      [text |-> <<"/", "s", "e", "t", "t", "i", "n", "g", "s">>,
       bypass |-> TRUE],
      [text |-> <<"/", "s", "k", "i", "l", "l", ":", "d", "e", "e", "p", "-", "r", "e", "s", "e", "a", "r", "c", "h">>,
       bypass |-> TRUE],
      [text |-> <<"h", "e", "l", "p", Blank, "m", "e", Blank, "w", "i", "t", "h", Blank, "t", "h", "i", "s">>,
       bypass |-> FALSE],
      [text |-> <<Blank, Blank, "f", "o", "l", "l", "o", "w", Blank, "u", "p", Blank, "a", "f", "t", "e", "r", Blank, "t", "h", "i", "s">>,
       bypass |-> FALSE],
      [text |-> <<"/", "t", "m", "p", "/", "b", "u", "i", "l", "d", ".", "l", "o", "g">>,
       bypass |-> FALSE],
      [text |-> <<"/", "U", "s", "e", "r", "s", "/", "j", "u", "l", "i", "a", "n", "/", "c", "o", "d", "e">>,
       bypass |-> FALSE]
    }

\* characters of the texts submitted when the predicate is exercised: a
\* slash, a letter, a colon, a blank, and a character no command name holds
CommandChars == {"/", "a", ":", Blank, "."}

CommandTexts == UNION {[1..n -> CommandChars] : n \in 1..MaxTextLen}

----
(* Queue Store *)

\* Array.prototype.splice(i, 1) with a 1-based index
RemoveAt(s, i) == SubSeq(s, 1, i - 1) \o SubSeq(s, i + 1, Len(s))

\* Array.prototype.splice(i, 0, x): x ends up at 1-based position i
InsertAt(s, i, x) == SubSeq(s, 1, i - 1) \o <<x>> \o SubSeq(s, i, Len(s))

\* buffer.findIndex((m) => m.mode === "steer"), 1-based, 0 for "not found"
steerIndex(buf) ==
    IF \E i \in 1..Len(buf) : buf[i].mode = "steer"
    THEN CHOOSE i \in 1..Len(buf) :
            /\ buf[i].mode = "steer"
            /\ \A j \in 1..(i - 1) : buf[j].mode # "steer"
    ELSE 0

\* variant: buffer.unshift(msg) in place of buffer.push(msg)
addMessage_unshift(buf, msg) == <<msg>> \o buf

addMessage(buf, msg) == Append(buf, msg)

\* the result of a removal from the Queue: the message returned (a list of
\* at most one entry, empty for `undefined`) and the Queue afterwards
Shifted(msg, buf) == [msg |-> msg, buffer |-> buf]

\* variant: buffer.pop() in place of buffer.shift()
shiftNext_pop(buf) ==
    IF Len(buf) = 0 THEN Shifted(<<>>, buf)
    ELSE Shifted(<<buf[Len(buf)]>>, SubSeq(buf, 1, Len(buf) - 1))

\* shiftNext: buffer.shift()
shiftNext(buf) ==
    IF Len(buf) = 0 THEN Shifted(<<>>, buf)
    ELSE Shifted(<<Head(buf)>>, Tail(buf))

\* variant: findLastIndex in place of findIndex
shiftNextSteer_last(buf) ==
    IF \A i \in 1..Len(buf) : buf[i].mode # "steer" THEN Shifted(<<>>, buf)
    ELSE LET index == CHOOSE i \in 1..Len(buf) :
                          /\ buf[i].mode = "steer"
                          /\ \A j \in (i + 1)..Len(buf) : buf[j].mode # "steer"
         IN Shifted(<<buf[index]>>, RemoveAt(buf, index))

\* shiftNextSteer: findIndex, then splice(index, 1)
shiftNextSteer(buf) ==
    LET index == steerIndex(buf) IN
    IF index = 0 THEN Shifted(<<>>, buf)
    ELSE Shifted(<<buf[index]>>, RemoveAt(buf, index))

\* nextId(): the counter is what distinguishes two ids
nextId == idCounter

----
(* Helpers of the controller *)

\* one call of pi.sendUserMessage; `id` records which Queue entry it was
sendToPi(text, isIdle, mode, id) ==
    [text |-> text, deliverAs |-> IF isIdle THEN "none" ELSE mode, id |-> id]

\* updateWidget(): the widget is set iff the Queue is non-empty; no-op
\* without a ui reference
updateWidget(buf, w) ==
    IF ~uiRef THEN w ELSE Len(buf) # 0

\* the lines the widget renders when it is set: one per Queue entry, read
\* from the Queue at render time, and the key hint; nothing when it is not set
widgetLines ==
    IF widget
    THEN [k \in 1..Len(buffer) |->
             [prefix |-> IF buffer[k].mode = "steer" THEN "Steer" ELSE "Follow-up",
              text |-> buffer[k].text]]
         \o <<[prefix |-> "hint", text |-> <<>>]>>
    ELSE <<>>

\* the result of a flush helper: the new Queue, the dispatches it made,
\* the widget afterwards
Flushed(buf, out, w) == [buffer |-> buf, out |-> out, widget |-> w]

\* variant: buffer.pop() in place of buffer.shift()
flushOneQueuedMessage_popLast(buf, isIdle, w) ==
    IF Len(buf) = 0 THEN Flushed(buf, <<>>, w)
    ELSE LET next == buf[Len(buf)]
             rest == SubSeq(buf, 1, Len(buf) - 1)
         IN Flushed(rest, <<sendToPi(next.text, isIdle, next.mode, next.id)>>,
                    updateWidget(rest, w))

\* variant: the flush does not refresh the widget
flushOneQueuedMessage_noRefresh(buf, isIdle, w) ==
    IF Len(buf) = 0 THEN Flushed(buf, <<>>, w)
    ELSE LET next == Head(buf)
             rest == Tail(buf)
         IN Flushed(rest, <<sendToPi(next.text, isIdle, next.mode, next.id)>>, w)

\* buffer.shift() is shiftNext of the Queue Store
flushOneQueuedMessage(buf, isIdle, w) ==
    IF Len(buf) = 0 THEN Flushed(buf, <<>>, w)
    ELSE LET shifted == shiftNext(buf)
             next == shifted.msg[1]
             rest == shifted.buffer
         IN Flushed(rest, <<sendToPi(next.text, isIdle, next.mode, next.id)>>,
                    updateWidget(rest, w))

\* variant: the first steer is sent and stays in the Queue
flushOneSteerWhileBusy_keeps(buf, w) ==
    LET shifted == shiftNextSteer(buf) IN
    IF shifted.msg = <<>> THEN Flushed(buf, <<>>, w)
    ELSE LET steerMsg == shifted.msg[1]
         IN Flushed(buf, <<sendToPi(steerMsg.text, FALSE, "steer", steerMsg.id)>>,
                    updateWidget(buf, w))

\* findIndex and splice(index, 1) are shiftNextSteer of the Queue Store
flushOneSteerWhileBusy(buf, w) ==
    LET shifted == shiftNextSteer(buf) IN
    IF shifted.msg = <<>> THEN Flushed(buf, <<>>, w)
    ELSE LET steerMsg == shifted.msg[1]
             rest == shifted.buffer
         IN Flushed(rest, <<sendToPi(steerMsg.text, FALSE, "steer", steerMsg.id)>>,
                    updateWidget(rest, w))

\* what ctx.isIdle() can report after the handler: pi.sendUserMessage runs
\* session.prompt(), so a dispatch makes the backend busy, at once or later
BackendAfter(out, cur) == IF out # <<>> THEN {FALSE, cur} ELSE {cur}

\* the host delivers session_start before any other event
HostReady == uiRef

\* a popup holds the keyboard: at most one is open
NoPopupOpen == ~picker.open /\ ~editor.open

\* dispatches that never were Queue entries
NumDirect == Cardinality({i \in 1..Len(sent) : sent[i].id = NoId})

----
(* Initial state: the extension has been constructed *)

Init ==
    /\ buffer = <<>>
    /\ lastMode = "steer"
    /\ editingQueue = FALSE
    /\ uiRef = FALSE
    /\ idCounter = 0
    /\ widget = FALSE
    /\ idle = TRUE
    /\ picker = NoPopup
    /\ editor = NoPopup
    /\ sent = <<>>
    /\ uiCalls = NoCalls
    /\ ev = Ev("init", "-", <<>>, "-", "-")

----
(* Lifecycle events *)

\* variant: the Queue is emptied and the widget is not refreshed
clearBuffer_noRefresh ==
    /\ buffer' = <<>>
    /\ widget' = widget

\* clearBuffer(): empty the Queue and refresh the widget; the handlers set
\* uiRef first, so updateWidget clears the widget
clearBuffer ==
    /\ buffer' = <<>>
    /\ widget' = FALSE

\* variant: the handler also resets the remembered mode
SessionStart_resetsMode ==
    /\ uiRef' = TRUE
    /\ clearBuffer
    /\ lastMode' = "steer"
    /\ \E i \in BOOLEAN : idle' = i
    /\ uiCalls' = NoCalls
    /\ ev' = Ev("session_start", "-", <<>>, "-", "-")
    /\ UNCHANGED <<editingQueue, idCounter, picker, editor, sent>>

\* session_start handler; the backend may be idle or busy afterwards
SessionStart ==
    /\ uiRef' = TRUE
    /\ clearBuffer
    /\ \E i \in BOOLEAN : idle' = i
    /\ uiCalls' = NoCalls
    /\ ev' = Ev("session_start", "-", <<>>, "-", "-")
    /\ UNCHANGED <<lastMode, editingQueue, idCounter, picker, editor, sent>>

\* session_switch handler
SessionSwitch ==
    /\ HostReady
    /\ uiRef' = TRUE
    /\ clearBuffer
    /\ \E i \in BOOLEAN : idle' = i
    /\ uiCalls' = NoCalls
    /\ ev' = Ev("session_switch", "-", <<>>, "-", "-")
    /\ UNCHANGED <<lastMode, editingQueue, idCounter, picker, editor, sent>>

\* variant: the handler without the editingQueue guard
agent_end_unguarded(buf, editing, isIdle, w) ==
    IF Len(buf) = 0 THEN Flushed(buf, <<>>, w)
    ELSE flushOneQueuedMessage(buf, isIdle, w)

\* the agent_end handler: flush one entry unless an edit session is open
agent_end(buf, editing, isIdle, w) ==
    IF editing \/ Len(buf) = 0 THEN Flushed(buf, <<>>, w)
    ELSE flushOneQueuedMessage(buf, isIdle, w)

\* agent_end: the backend finished its task; ctx.isIdle() may or may not
\* already report idle inside the handler
AgentEnd ==
    /\ HostReady
    /\ ~idle
    /\ \E isIdle \in BOOLEAN :
        LET r == agent_end(buffer, editingQueue, isIdle, widget)
        IN /\ buffer' = r.buffer
           /\ sent' = sent \o r.out
           /\ widget' = r.widget
           /\ idle' \in BackendAfter(r.out, TRUE)
    /\ uiCalls' = NoCalls
    /\ ev' = Ev("agent_end", "-", <<>>, "-", "-")
    /\ UNCHANGED <<lastMode, editingQueue, uiRef, idCounter, picker, editor>>

----
(* Mode Picker *)

\* variant: left and right toggle like the other navigation keys
handleModePickerInput_arrowsToggle(selected, data) ==
    IF data \in {"tab", "up", "down", "left", "right"}
    THEN [selected |-> IF selected = "steer" THEN "followUp" ELSE "steer",
          action |-> "none"]
    ELSE IF data = "return" THEN [selected |-> selected, action |-> "select"]
    ELSE IF data = "escape" THEN [selected |-> selected, action |-> "cancel"]
    ELSE [selected |-> selected, action |-> "none"]

\* handleModePickerInput: the new `selected` and the action returned
handleModePickerInput(selected, data) ==
    IF data \in {"tab", "up", "down"}
    THEN [selected |-> IF selected = "steer" THEN "followUp" ELSE "steer",
          action |-> "none"]
    ELSE IF data = "left" THEN [selected |-> "steer", action |-> "none"]
    ELSE IF data = "right" THEN [selected |-> "followUp", action |-> "none"]
    ELSE IF data = "return" THEN [selected |-> selected, action |-> "select"]
    ELSE IF data = "escape" THEN [selected |-> selected, action |-> "cancel"]
    ELSE [selected |-> selected, action |-> "none"]

\* terminal capability seen by the input handler: no ui, a limited
\* terminal (PI_QUEUE_PICKER_DISABLE / SSH_TTY / SSH_CONNECTION), or full
Terms == {"noui", "limited", "full"}

\* input handler, the pass-through returns ({ action: "continue" }) for one
\* submission; the terminal capability is read only for an interactive
\* busy-time submission, and is recorded as "full" when it is not read
inputContinue(src, text, term) ==
    /\ HostReady
    /\ src = "interactive" => NoPopupOpen
    /\ src # "interactive" => (term = "full" /\ Trim(text) # <<>>)
    /\ idle => term = "full"
    /\ \/ src # "interactive"
       \/ idle
       \/ term = "noui"
       \/ Trim(text) = <<>>
       \/ term = "limited"
    /\ ev' = Ev("input_continue", "-", text, src, term)
    /\ \E b \in {idle, FALSE} : idle' = b
    /\ uiCalls' = NoCalls
    /\ UNCHANGED <<buffer, lastMode, editingQueue, uiRef, idCounter, widget,
                   picker, editor, sent>>

InputContinue ==
    \E src \in Sources, text \in InputTexts, term \in Terms :
        inputContinue(src, text, term)

\* variant: the handler without the ctx.isIdle() pass-through
inputPicker_noIdleCheck(text) ==
    /\ HostReady
    /\ NoPopupOpen
    /\ idCounter + NumDirect < MaxMsgs
    /\ Trim(text) # <<>>
    /\ picker' = [open |-> TRUE, selected |-> lastMode, messageText |-> text]
    /\ ev' = Ev("picker_open", "-", text, "interactive", "full")
    /\ uiCalls' = NoCalls
    /\ UNCHANGED <<buffer, lastMode, editingQueue, uiRef, idCounter, widget,
                   idle, editor, sent>>

\* variant: the handler without the isLimitedTerminal() pass-through
inputPicker_noLimitedCheck(text) ==
    /\ HostReady
    /\ NoPopupOpen
    /\ ~idle
    /\ idCounter + NumDirect < MaxMsgs
    /\ Trim(text) # <<>>
    /\ picker' = [open |-> TRUE, selected |-> lastMode, messageText |-> text]
    /\ \E term \in {"limited", "full"} :
          ev' = Ev("picker_open", "-", text, "interactive", term)
    /\ uiCalls' = NoCalls
    /\ UNCHANGED <<buffer, lastMode, editingQueue, uiRef, idCounter, widget,
                   idle, editor, sent>>

\* variant: every picker starts on steer
inputPicker_steerDefault(text) ==
    /\ HostReady
    /\ NoPopupOpen
    /\ ~idle
    /\ idCounter + NumDirect < MaxMsgs
    /\ Trim(text) # <<>>
    /\ picker' = [open |-> TRUE, selected |-> "steer", messageText |-> text]
    /\ ev' = Ev("picker_open", "-", text, "interactive", "full")
    /\ uiCalls' = NoCalls
    /\ UNCHANGED <<buffer, lastMode, editingQueue, uiRef, idCounter, widget,
                   idle, editor, sent>>

\* input handler up to the await, for one interactive submission on a full
\* terminal: the picker opens with selected = lastMode
inputPicker(text) ==
    /\ HostReady
    /\ NoPopupOpen
    /\ ~idle
    /\ idCounter + NumDirect < MaxMsgs
    /\ Trim(text) # <<>>
    /\ picker' = [open |-> TRUE, selected |-> lastMode, messageText |-> text]
    /\ ev' = Ev("picker_open", "-", text, "interactive", "full")
    /\ uiCalls' = NoCalls
    /\ UNCHANGED <<buffer, lastMode, editingQueue, uiRef, idCounter, widget,
                   idle, editor, sent>>

InputPicker == \E text \in InputTexts : inputPicker(text)

\* a key that does not resolve the picker
PickerKey ==
    /\ picker.open
    /\ \E data \in Keys :
        LET r == handleModePickerInput(picker.selected, data) IN
        /\ r.action = "none"
        /\ picker' = [picker EXCEPT !.selected = r.selected]
        /\ ev' = Ev("picker_key", data, picker.messageText, "-", "-")
    /\ uiCalls' = NoCalls
    /\ UNCHANGED <<buffer, lastMode, editingQueue, uiRef, idCounter, widget,
                   idle, editor, sent>>

\* variant: the highlighted mode is remembered before the cancel check
PickerCancel_remembers ==
    /\ picker.open
    /\ handleModePickerInput(picker.selected, "escape").action = "cancel"
    /\ lastMode' = picker.selected
    /\ uiCalls' = SetEditorText(picker.messageText)
    /\ picker' = NoPopup
    /\ ev' = Ev("picker_cancel", "escape", picker.messageText, "-", "-")
    /\ UNCHANGED <<buffer, editingQueue, uiRef, idCounter, widget,
                   idle, editor, sent>>

\* escape: done(null), then the handler restores the text
PickerCancel ==
    /\ picker.open
    /\ handleModePickerInput(picker.selected, "escape").action = "cancel"
    /\ uiCalls' = SetEditorText(picker.messageText)
    /\ picker' = NoPopup
    /\ ev' = Ev("picker_cancel", "escape", picker.messageText, "-", "-")
    /\ UNCHANGED <<buffer, lastMode, editingQueue, uiRef, idCounter, widget,
                   idle, editor, sent>>

\* variant: both modes are queued (src/unnamed/part_002)
inputSelected_bufferBoth(buf, mode, text, isIdle, w) ==
    LET pushed == addMessage(buf, [text |-> text, mode |-> mode, id |-> nextId])
        w1 == updateWidget(pushed, w)
    IN IF isIdle THEN flushOneQueuedMessage(pushed, TRUE, w1)
       ELSE Flushed(pushed, <<>>, w1)

\* variant: no flush when the backend went idle behind the picker
inputSelected_noIdleFlush(buf, mode, text, isIdle, w) ==
    IF mode = "steer"
    THEN Flushed(buf, <<[text |-> text, deliverAs |-> "steer", id |-> NoId]>>, w)
    ELSE LET pushed == addMessage(buf, [text |-> text, mode |-> mode, id |-> nextId])
         IN Flushed(pushed, <<>>, updateWidget(pushed, w))

\* the input handler after the picker resolved with a mode
\* (the new Queue, the dispatches it made, the widget)
inputSelected(buf, mode, text, isIdle, w) ==
    IF mode = "steer"
    THEN Flushed(buf, <<[text |-> text, deliverAs |-> "steer", id |-> NoId]>>, w)
    ELSE LET pushed == addMessage(buf, [text |-> text, mode |-> mode, id |-> nextId])
             w1 == updateWidget(pushed, w)
         IN IF isIdle THEN flushOneQueuedMessage(pushed, TRUE, w1)
            ELSE Flushed(pushed, <<>>, w1)

\* variant: nextId() without the counter increment
PickerSelect_noIncrement ==
    /\ picker.open
    /\ LET a == handleModePickerInput(picker.selected, "return")
           mode == a.selected
           text == picker.messageText
           r == inputSelected(buffer, mode, text, idle, widget)
       IN /\ a.action = "select"
          /\ lastMode' = mode
          /\ buffer' = r.buffer
          /\ sent' = sent \o r.out
          /\ widget' = r.widget
          /\ idle' \in BackendAfter(r.out, idle)
          /\ idCounter' = idCounter
          /\ uiCalls' = Notify(IF mode = "steer" THEN "Steer" ELSE "Queued follow-up", text)
          /\ ev' = Ev("picker_select", "return", text, mode, "-")
    /\ picker' = NoPopup
    /\ UNCHANGED <<editingQueue, uiRef, editor>>

\* variant: the picker resolves with the mode it opened on
PickerSelect_initialMode ==
    /\ picker.open
    /\ LET a == handleModePickerInput(picker.selected, "return")
           mode == lastMode
           text == picker.messageText
           r == inputSelected(buffer, mode, text, idle, widget)
       IN /\ a.action = "select"
          /\ lastMode' = mode
          /\ buffer' = r.buffer
          /\ sent' = sent \o r.out
          /\ widget' = r.widget
          /\ idle' \in BackendAfter(r.out, idle)
          /\ idCounter' = IF mode = "steer" THEN idCounter ELSE idCounter + 1
          /\ uiCalls' = Notify(IF mode = "steer" THEN "Steer" ELSE "Queued follow-up", text)
          /\ ev' = Ev("picker_select", "return", text, mode, "-")
    /\ picker' = NoPopup
    /\ UNCHANGED <<editingQueue, uiRef, editor>>

\* return: done(selected), then the handler dispatches or queues
PickerSelect ==
    /\ picker.open
    /\ LET a == handleModePickerInput(picker.selected, "return")
           mode == a.selected
           text == picker.messageText
           r == inputSelected(buffer, mode, text, idle, widget)
       IN /\ a.action = "select"
          /\ lastMode' = mode
          /\ buffer' = r.buffer
          /\ sent' = sent \o r.out
          /\ widget' = r.widget
          /\ idle' \in BackendAfter(r.out, idle)
          /\ idCounter' = IF mode = "steer" THEN idCounter ELSE idCounter + 1
          /\ uiCalls' = Notify(IF mode = "steer" THEN "Steer" ELSE "Queued follow-up", text)
          /\ ev' = Ev("picker_select", "return", text, mode, "-")
    /\ picker' = NoPopup
    /\ UNCHANGED <<editingQueue, uiRef, editor>>

----
(* Queue Editor *)

\* createQueueEditorState: a clone of the Queue, cursor on the first entry
createQueueEditorState(items) ==
    [open |-> TRUE, items |-> items, selected |-> 0, mode |-> "list"]

\* variant: the submitted value is written as typed, without trim()
onSubmit_noTrim(st, value) ==
    IF Len(st.items) = 0 THEN [st EXCEPT !.mode = "list"]
    ELSE IF Len(Trim(value)) > 0
         THEN [st EXCEPT !.items[st.selected + 1].text = value, !.mode = "list"]
         ELSE [st EXCEPT !.mode = "list"]

\* editInput.onSubmit
onSubmit(st, value) ==
    IF Len(st.items) = 0 THEN [st EXCEPT !.mode = "list"]
    ELSE LET updated == Trim(value) IN
         IF Len(updated) > 0
         THEN [st EXCEPT !.items[st.selected + 1].text = updated, !.mode = "list"]
         ELSE [st EXCEPT !.mode = "list"]

\* editInput.onEscape
onEscape(st) == [st EXCEPT !.mode = "list"]

\* openEditor: the inline editor is seeded with the selected entry's text;
\* its value lives in the input widget, not in the editor state
openEditor(st) ==
    IF Len(st.items) = 0 THEN st
    ELSE [st EXCEPT !.mode = "edit"]

\* variant: tab reaches the list-mode table while the inline editor is open
editInputHandle_tabToggles(st, data, typed) ==
    IF data = "return" THEN onSubmit(st, typed)
    ELSE IF data = "escape" THEN onEscape(st)
    ELSE IF data = "tab"
    THEN [st EXCEPT !.items[st.selected + 1].mode =
                        IF st.items[st.selected + 1].mode = "steer"
                        THEN "followUp" ELSE "steer"]
    ELSE st

\* editInput.handleInput: the inline editor submits its value (`typed`) on
\* return, escapes on escape, and any other key only edits its value
editInputHandle(st, data, typed) ==
    IF data = "return" THEN onSubmit(st, typed)
    ELSE IF data = "escape" THEN onEscape(st)
    ELSE st

moveUpKeys == {"k", "K", "shift+up"}

moveDownKeys == {"j", "J", "shift+down"}

editKeys == {"e", "E"}

deleteKeys == {"d", "D", "delete", "backspace"}

\* the editor state with the action the reducer returns
Reduced(st, action) == [state |-> st, action |-> action]

\* the other mode
otherMode(mode) == IF mode = "steer" THEN "followUp" ELSE "steer"

\* variant: the entry moves up and the cursor stays where it was
moveSelectedUp_cursorStays(st) ==
    IF st.selected > 0
    THEN LET item == st.items[st.selected + 1]
             cut == RemoveAt(st.items, st.selected + 1)
         IN [st EXCEPT !.items = InsertAt(cut, st.selected, item)]
    ELSE st

\* moveUp in list mode: splice the selected entry out and back in one
\* place earlier, the cursor follows it
moveSelectedUp(st) ==
    IF st.selected > 0
    THEN LET item == st.items[st.selected + 1]
             cut == RemoveAt(st.items, st.selected + 1)
         IN [st EXCEPT !.items = InsertAt(cut, st.selected, item),
                       !.selected = st.selected - 1]
    ELSE st

\* variant: the entry above the cursor is the one that moves down
moveSelectedDown_upperNeighbour(st) ==
    IF st.selected < Len(st.items) - 1
    THEN LET above == Max(1, st.selected)
             item == st.items[above]
             cut == RemoveAt(st.items, above)
         IN [st EXCEPT !.items = InsertAt(cut, above + 1, item),
                       !.selected = st.selected + 1]
    ELSE st

\* moveDown in list mode: splice the selected entry out and back in one
\* place later, the cursor follows it
moveSelectedDown(st) ==
    IF st.selected < Len(st.items) - 1
    THEN LET item == st.items[st.selected + 1]
             cut == RemoveAt(st.items, st.selected + 1)
         IN [st EXCEPT !.items = InsertAt(cut, st.selected + 2, item),
                       !.selected = st.selected + 1]
    ELSE st

\* variant: the cursor wraps from the first entry to the last
selectPrevious_wraps(st) ==
    [st EXCEPT !.selected = IF st.selected = 0 THEN Len(st.items) - 1
                            ELSE st.selected - 1]

\* up in list mode
selectPrevious(st) == [st EXCEPT !.selected = Max(0, st.selected - 1)]

\* down in list mode
selectNext(st) ==
    [st EXCEPT !.selected = Min(Len(st.items) - 1, st.selected + 1)]

\* variant: tab toggles the first entry
toggleSelected_first(st) ==
    [st EXCEPT !.items[1].mode = otherMode(st.items[1].mode)]

\* tab in list mode
toggleSelected(st) ==
    [st EXCEPT !.items[st.selected + 1].mode =
                   otherMode(st.items[st.selected + 1].mode)]

\* variant: after a delete the cursor moves to the entry above
deleteSelected_cursorUp(st) ==
    LET rest == RemoveAt(st.items, st.selected + 1)
    IN [st EXCEPT !.items = rest, !.selected = Max(0, st.selected - 1)]

\* variant: the cursor is not clamped after a delete
deleteSelected_noClamp(st) ==
    [st EXCEPT !.items = RemoveAt(st.items, st.selected + 1)]

\* delete in list mode: splice(selected, 1), then the cursor is clamped
deleteSelected(st) ==
    LET rest == RemoveAt(st.items, st.selected + 1)
    IN [st EXCEPT !.items = rest,
                  !.selected = Min(st.selected, Max(0, Len(rest) - 1))]

\* variant: escape on an empty list cancels
onEmptyList_escapeCancels(st, data) ==
    IF data = "return" THEN Reduced(st, "save")
    ELSE IF data = "escape" THEN Reduced(st, "cancel")
    ELSE Reduced(st, "none")

\* the branch for an empty list: return and escape save (the empty list),
\* nothing else has a meaning
onEmptyList(st, data) ==
    IF data \in {"return", "escape"}
    THEN Reduced(st, "save")
    ELSE Reduced(st, "none")

\* handleQueueEditorInput
handleQueueEditorInput(st, data, typed) ==
    IF Len(st.items) = 0 THEN onEmptyList(st, data)
    ELSE IF st.mode = "edit"
    THEN Reduced(editInputHandle(st, data, typed), "none")
    ELSE IF data \in moveUpKeys THEN Reduced(moveSelectedUp(st), "none")
    ELSE IF data \in moveDownKeys THEN Reduced(moveSelectedDown(st), "none")
    ELSE IF data = "up" THEN Reduced(selectPrevious(st), "none")
    ELSE IF data = "down" THEN Reduced(selectNext(st), "none")
    ELSE IF data = "tab" THEN Reduced(toggleSelected(st), "none")
    ELSE IF data \in editKeys THEN Reduced(openEditor(st), "none")
    ELSE IF data \in deleteKeys THEN Reduced(deleteSelected(st), "none")
    ELSE IF data = "return" THEN Reduced(st, "save")
    ELSE IF data = "escape" THEN Reduced(st, "cancel")
    ELSE Reduced(st, "none")

\* the value the inline editor holds when a key reaches it: read on return
\* in edit mode, where it is the seeded text or something the user typed
Typed(st, data) ==
    IF Len(st.items) # 0 /\ st.mode = "edit" /\ data = "return"
    THEN {st.items[st.selected + 1].text} \cup DraftValues
    ELSE {<<>>}

\* variant: the guard is set before the empty check
EditQueueEmpty_guardFirst ==
    /\ HostReady
    /\ NoPopupOpen
    /\ Len(buffer) = 0
    /\ editingQueue' = TRUE
    /\ uiCalls' = Notify("No queued messages", <<>>)
    /\ ev' = Ev("edit_empty", "-", <<>>, "-", "-")
    /\ UNCHANGED <<buffer, lastMode, uiRef, idCounter, widget,
                   idle, picker, editor, sent>>

\* editQueue on an empty Queue: a notification, nothing else
EditQueueEmpty ==
    /\ HostReady
    /\ NoPopupOpen
    /\ Len(buffer) = 0
    /\ uiCalls' = Notify("No queued messages", <<>>)
    /\ ev' = Ev("edit_empty", "-", <<>>, "-", "-")
    /\ UNCHANGED <<buffer, lastMode, editingQueue, uiRef, idCounter, widget,
                   idle, picker, editor, sent>>

\* editQueue up to the await: the guard is set and the popup opens on a clone
EditQueueOpen ==
    /\ HostReady
    /\ NoPopupOpen
    /\ Len(buffer) # 0
    /\ editingQueue' = TRUE
    /\ editor' = createQueueEditorState(buffer)
    /\ uiCalls' = NoCalls
    /\ ev' = Ev("edit_open", "-", <<>>, "-", "-")
    /\ UNCHANGED <<buffer, lastMode, uiRef, idCounter, widget, idle, picker,
                   sent>>

\* variant: the editor works on the live Queue, not on a clone
EditorKey_liveQueue ==
    /\ editor.open
    /\ \E data \in Keys : \E typed \in Typed(editor, data) :
        LET r == handleQueueEditorInput(editor, data, typed) IN
        /\ r.action = "none"
        /\ editor' = r.state
        /\ buffer' = r.state.items
        /\ ev' = Ev("editor_key", "-", <<>>, "-", "-")
    /\ uiCalls' = NoCalls
    /\ UNCHANGED <<lastMode, editingQueue, uiRef, idCounter, widget,
                   idle, picker, sent>>

\* a key that does not resolve the editor
EditorKey ==
    /\ editor.open
    /\ \E data \in Keys : \E typed \in Typed(editor, data) :
        LET r == handleQueueEditorInput(editor, data, typed) IN
        /\ r.action = "none"
        /\ editor' = r.state
        /\ ev' = Ev("editor_key", "-", <<>>, "-", "-")
    /\ uiCalls' = NoCalls
    /\ UNCHANGED <<buffer, lastMode, editingQueue, uiRef, idCounter, widget,
                   idle, picker, sent>>

\* variant: the commit of the snapshot without a priority pull
\* (src/unnamed/part_002)
editQueueCommit_noPull(result, isIdle, w) ==
    LET w1 == updateWidget(result, w) IN
    IF isIdle /\ Len(result) > 0 THEN flushOneQueuedMessage(result, TRUE, w1)
    ELSE Flushed(result, <<>>, w1)

\* the steer-tagged entries of a list as dispatches, in order
RECURSIVE SteersOf(_, _)
SteersOf(result, isIdle) ==
    IF result = <<>> THEN <<>>
    ELSE LET m == Head(result) IN
         (IF m.mode = "steer" THEN <<sendToPi(m.text, isIdle, "steer", m.id)>> ELSE <<>>)
             \o SteersOf(Tail(result), isIdle)

\* variant: the commit of the oldest snapshot, which sends every
\* steer-tagged entry and keeps the follow-ups (src/extensions/queue-picker.ts)
editQueueCommit_allSteers(result, isIdle, w) ==
    LET remainingFollowUps == SelectSeq(result, LAMBDA m : m.mode = "followUp")
        w1 == updateWidget(remainingFollowUps, w)
        f == IF isIdle /\ Len(remainingFollowUps) > 0
             THEN flushOneQueuedMessage(remainingFollowUps, TRUE, w1)
             ELSE Flushed(remainingFollowUps, <<>>, w1)
    IN Flushed(f.buffer, SteersOf(result, isIdle) \o f.out, f.widget)

\* variant: the priority pull tried before the idle flush
editQueueCommit_pullFirst(result, isIdle, w) ==
    LET w1 == updateWidget(result, w) IN
    IF steerIndex(result) # 0 THEN flushOneSteerWhileBusy(result, w1)
    ELSE IF isIdle /\ Len(result) > 0 THEN flushOneQueuedMessage(result, TRUE, w1)
    ELSE Flushed(result, <<>>, w1)

\* editQueue after the popup resolved with a list: replace the Queue, then
\* flush one (idle) or pull the first steer (busy)
editQueueCommit(result, isIdle, w) ==
    LET w1 == updateWidget(result, w) IN
    IF isIdle /\ Len(result) > 0 THEN flushOneQueuedMessage(result, TRUE, w1)
    ELSE IF ~isIdle THEN flushOneSteerWhileBusy(result, w1)
    ELSE Flushed(result, <<>>, w1)

\* variant: the save carries the list the editor was opened on
EditorSave_savesOpened ==
    /\ editor.open
    /\ \E data \in {"return", "escape"} :
        LET a == handleQueueEditorInput(editor, data, <<>>)
            r == editQueueCommit(buffer, idle, widget)
        IN /\ a.action = "save"
           /\ buffer' = r.buffer
           /\ sent' = sent \o r.out
           /\ widget' = r.widget
           /\ idle' \in BackendAfter(r.out, idle)
           /\ ev' = Ev("editor_save", data, <<>>, "-", "-")
    /\ editingQueue' = FALSE
    /\ editor' = NoPopup
    /\ uiCalls' = NoCalls
    /\ UNCHANGED <<lastMode, uiRef, idCounter, picker>>

\* a key on which the reducer returns save: done(items)
EditorSave ==
    /\ editor.open
    /\ \E data \in {"return", "escape"} :
        LET a == handleQueueEditorInput(editor, data, <<>>)
            r == editQueueCommit(a.state.items, idle, widget)
        IN /\ a.action = "save"
           /\ buffer' = r.buffer
           /\ sent' = sent \o r.out
           /\ widget' = r.widget
           /\ idle' \in BackendAfter(r.out, idle)
           /\ ev' = Ev("editor_save", data, <<>>, "-", "-")
    /\ editingQueue' = FALSE
    /\ editor' = NoPopup
    /\ uiCalls' = NoCalls
    /\ UNCHANGED <<lastMode, uiRef, idCounter, picker>>

\* variant: a cancelled session is committed as an empty list
EditorCancel_dropsQueue ==
    /\ editor.open
    /\ \E data \in {"escape"} :
        /\ handleQueueEditorInput(editor, data, <<>>).action = "cancel"
        /\ ev' = Ev("editor_cancel", data, <<>>, "-", "-")
    /\ buffer' = <<>>
    /\ widget' = updateWidget(<<>>, widget)
    /\ editingQueue' = FALSE
    /\ editor' = NoPopup
    /\ uiCalls' = NoCalls
    /\ UNCHANGED <<lastMode, uiRef, idCounter, idle, picker, sent>>

\* a key on which the reducer returns cancel: done(null)
EditorCancel ==
    /\ editor.open
    /\ \E data \in {"escape"} :
        /\ handleQueueEditorInput(editor, data, <<>>).action = "cancel"
        /\ ev' = Ev("editor_cancel", data, <<>>, "-", "-")
    /\ editingQueue' = FALSE
    /\ editor' = NoPopup
    /\ uiCalls' = NoCalls
    /\ UNCHANGED <<buffer, lastMode, uiRef, idCounter, widget, idle, picker,
                   sent>>

----
(* Specification *)

Next ==
    \/ SessionStart
    \/ SessionSwitch
    \/ AgentEnd
    \/ InputContinue
    \/ InputPicker
    \/ PickerKey
    \/ PickerCancel
    \/ PickerSelect
    \/ EditQueueEmpty
    \/ EditQueueOpen
    \/ EditorKey
    \/ EditorSave
    \/ EditorCancel

Spec == Init /\ [][Next]_vars

\* the input handler given the texts that exercise the bypass predicate:
\* the first interactive submission of a session, the picker it opens
\* navigated and cancelled
BypassInputContinue ==
    /\ ev.name = "session_start"
    /\ \E text \in CommandTexts, term \in Terms :
          inputContinue("interactive", text, term)

BypassInputPicker ==
    /\ ev.name = "session_start"
    /\ \E text \in CommandTexts : inputPicker(text)

NextBypass ==
    \/ SessionStart
    \/ BypassInputContinue
    \/ BypassInputPicker
    \/ PickerKey
    \/ PickerCancel

SpecBypass == Init /\ [][NextBypass]_vars

\* a Queue of n follow-ups, queued through the picker in one busy stretch
QueuedFollowUps(n) ==
    [k \in 1..n |-> [text |-> <<"a">>, mode |-> "followUp", id |-> k - 1]]

\* the Queue Editor just opened on such a Queue (the state EditQueueOpen
\* leaves), the backend still busy or idle by now
InitEditor ==
    /\ \E n \in 1..MaxItems : buffer = QueuedFollowUps(n)
    /\ lastMode = "followUp"
    /\ editingQueue = TRUE
    /\ uiRef = TRUE
    /\ idCounter = Len(buffer)
    /\ widget = TRUE
    /\ idle \in BOOLEAN
    /\ picker = NoPopup
    /\ editor = createQueueEditorState(buffer)
    /\ sent = <<>>
    /\ uiCalls = NoCalls
    /\ ev = Ev("edit_open", "-", <<>>, "-", "-")

\* one Queue Editor session: keys until the popup resolves
NextEditor ==
    \/ EditorKey
    \/ EditorSave
    \/ EditorCancel

SpecEditor == InitEditor /\ [][NextEditor]_vars

\* the extension in one session in which no editor commit changes the
\* Queue: the host starts the session once, and the user saves an editor
\* session only with the list as it was opened
FifoSessionStart ==
    /\ ~uiRef
    /\ SessionStart

FifoEditorSave ==
    /\ editor.open
    /\ editor.items = buffer
    /\ EditorSave

NextFifo ==
    \/ FifoSessionStart
    \/ AgentEnd
    \/ InputContinue
    \/ InputPicker
    \/ PickerKey
    \/ PickerCancel
    \/ PickerSelect
    \/ EditQueueEmpty
    \/ EditQueueOpen
    \/ EditorKey
    \/ FifoEditorSave
    \/ EditorCancel

SpecFifo == Init /\ [][NextFifo]_vars

\* the backend finishes every task it is given, and every popup is closed
\* in the end; nothing obliges the user to submit or the host to reset
Fairness ==
    /\ WF_vars(AgentEnd)
    /\ WF_vars(PickerSelect \/ PickerCancel)
    /\ WF_vars(EditorSave \/ EditorCancel)

SpecLive == Spec /\ Fairness

TypeOK ==
    /\ lastMode \in Modes
    /\ editingQueue \in BOOLEAN
    /\ idCounter \in 0..MaxMsgs
    /\ Len(sent) <= MaxMsgs

----
(* Properties: delivery policy *)

\* the last call of pi.sendUserMessage
LastSent == sent[Len(sent)]

\* the first steer-tagged position of a list, stated without findIndex
IsFirstSteer(items, i) ==
    /\ i \in 1..Len(items)
    /\ items[i].mode = "steer"
    /\ \A j \in 1..Len(items) : j < i => items[j].mode = "followUp"

\* `s` without its i-th entry, the others in the same relative order
Without(s, i) == [k \in 1..(Len(s) - 1) |-> IF k < i THEN s[k] ELSE s[k + 1]]

\* C1: on agent_end with no Queue Editor session open and a non-empty
\* Queue, exactly one entry is removed and dispatched; it is the head of the
\* Queue whatever its mode tag, and every other entry stays in the Queue in
\* its prior relative order.
C1_AgentEndFlushesHead ==
    [][(ev'.name = "agent_end" /\ ~editor.open /\ Len(buffer) > 0) =>
          /\ Len(buffer') = Len(buffer) - 1
          /\ \A k \in 1..Len(buffer') : buffer'[k] = buffer[k + 1]
          /\ Len(sent') = Len(sent) + 1
          /\ \A k \in 1..Len(sent) : sent'[k] = sent[k]
          /\ sent'[Len(sent')].id = buffer[1].id
          /\ sent'[Len(sent')].text = buffer[1].text]_vars

\* C1 witness: two follow-ups were queued; agent_end dispatched the first
\* and the Queue retains only the second
C1_Witness ==
    /\ ev.name = "agent_end"
    /\ Len(sent) = 1
    /\ sent[1].id = 0
    /\ Len(buffer) = 1
    /\ buffer[1].id = 1

\* C2: while a Queue Editor session is open, agent_end dispatches no message
\* and leaves the live Queue unchanged.
C2_AgentEndHeldWhileEditing ==
    [][(ev'.name = "agent_end" /\ editor.open) =>
          (buffer' = buffer /\ sent' = sent)]_vars

\* C2 witness: agent_end arrived during an edit session over a non-empty
\* Queue and nothing was sent
C2_Witness ==
    /\ ev.name = "agent_end"
    /\ editor.open
    /\ Len(buffer) > 0
    /\ sent = <<>>

\* C3: when an edit session saves while the backend is busy and the committed
\* items hold a steer-tagged entry, the first steer-tagged entry in committed
\* order is removed and dispatched at once with the steer tag, and the Queue
\* afterwards is the committed items minus that entry, in the same order.
C3_BusySavePullsFirstSteer ==
    [][(ev'.name = "editor_save" /\ ~idle
            /\ \E i \in 1..Len(editor.items) : editor.items[i].mode = "steer") =>
          \E i \in 1..Len(editor.items) :
              /\ IsFirstSteer(editor.items, i)
              /\ buffer' = Without(editor.items, i)
              /\ sent' = Append(sent, [text |-> editor.items[i].text,
                                       deliverAs |-> "steer",
                                       id |-> editor.items[i].id])]_vars

\* C3 witness: the only queued message was toggled to steer and saved; it
\* was sent as a steer and the Queue is empty while the backend is busy
C3_Witness ==
    /\ ev.name = "editor_save"
    /\ idCounter = 1
    /\ buffer = <<>>
    /\ Len(sent) = 1
    /\ sent[1].id = 0
    /\ sent[1].deliverAs = "steer"
    /\ ~idle

\* C4: one commit dispatches at most one message; with several steer-tagged
\* entries committed while the backend is busy only the first is pulled and
\* the other steer-tagged entries stay in the Queue.
C4_OneDispatchPerCommit ==
    [][(ev'.name = "editor_save") =>
          /\ Len(sent') <= Len(sent) + 1
          /\ ~idle =>
                \A i \in 1..Len(editor.items) :
                    (editor.items[i].mode = "steer" /\ ~IsFirstSteer(editor.items, i)) =>
                        \E k \in 1..Len(buffer') : buffer'[k] = editor.items[i]]_vars

\* C4 witness: a commit with two steer-tagged entries sent one steer and
\* left the other, still steer-tagged, in the Queue
C4_Witness ==
    /\ ev.name = "editor_save"
    /\ Len(sent) = 1
    /\ LastSent.deliverAs = "steer"
    /\ LastSent.id # NoId
    /\ Len(buffer) = 1
    /\ buffer[1].mode = "steer"

\* C5: when an edit session saves while the backend is idle and the committed
\* list is non-empty, the Queue becomes the committed items without their
\* head, and the head is what is dispatched, also when a later entry is
\* steer-tagged: the idle path pulls no steer.
C5_IdleSaveFlushesHead ==
    [][(ev'.name = "editor_save" /\ idle /\ Len(editor.items) > 0) =>
          /\ buffer' = Without(editor.items, 1)
          /\ Len(sent') = Len(sent) + 1
          /\ \A k \in 1..Len(sent) : sent'[k] = sent[k]
          /\ sent'[Len(sent')].id = editor.items[1].id
          /\ sent'[Len(sent')].text = editor.items[1].text]_vars

\* C5 witness: an idle commit sent the follow-up at the head and left the
\* steer-tagged entry behind it in the Queue
C5_Witness ==
    /\ ev.name = "editor_save"
    /\ Len(sent) = 1
    /\ LastSent.deliverAs = "none"
    /\ LastSent.id # NoId
    /\ Len(buffer) = 1
    /\ buffer[1].mode = "steer"
    /\ buffer[1].id # LastSent.id

\* C6 (as claimed): escape in list mode ends the edit session with the live
\* Queue as it was and nothing dispatched, whatever was done in the session,
\* deleting every entry included.
C6_EscapeLeavesQueue ==
    [][(ev'.name \in {"editor_save", "editor_cancel"} /\ ev'.key = "escape"
            /\ editor.mode = "list") =>
          (buffer' = buffer /\ sent' = sent)]_vars

\* C7: when the picker resolves with select(steer) the submitted text is
\* dispatched at once with the steer tag, whether or not the backend went
\* idle meanwhile, and the Queue is unchanged: a picker steer is not queued.
C7_PickerSteerSentNotQueued ==
    [][(ev'.name = "picker_select" /\ picker.selected = "steer") =>
          /\ buffer' = buffer
          /\ sent' = Append(sent, [text |-> picker.messageText,
                                   deliverAs |-> "steer", id |-> NoId])]_vars

\* C7 witness: a steer was picked while a follow-up was queued; the steer
\* went out and the Queue still holds only the follow-up
C7_Witness ==
    /\ ev.name = "picker_select"
    /\ ev.src = "steer"
    /\ Len(sent) = 1
    /\ LastSent = [text |-> ev.text, deliverAs |-> "steer", id |-> NoId]
    /\ Len(buffer) = 1
    /\ buffer[1].mode = "followUp"

\* C8: when the picker resolves with select(followUp) and the backend is
\* still busy, an entry with the submitted text and mode followUp is appended
\* at the tail, the existing entries keep their positions, nothing is sent.
C8_PickerFollowUpAppended ==
    [][(ev'.name = "picker_select" /\ picker.selected = "followUp" /\ ~idle) =>
          /\ Len(buffer') = Len(buffer) + 1
          /\ \A k \in 1..Len(buffer) : buffer'[k] = buffer[k]
          /\ buffer'[Len(buffer')].text = picker.messageText
          /\ buffer'[Len(buffer')].mode = "followUp"
          /\ sent' = sent]_vars

\* C8 witness: a second follow-up was queued behind the first while the
\* backend was busy
C8_Witness ==
    /\ ev.name = "picker_select"
    /\ ev.src = "followUp"
    /\ sent = <<>>
    /\ Len(buffer) = 2
    /\ buffer[1].id = 0
    /\ buffer[2].id = 1
    /\ buffer[2].text = ev.text

C10_PickerCancelRestores ==
    [][(ev'.name = "picker_cancel") =>
          /\ uiCalls' = SetEditorText(picker.messageText)
          /\ buffer' = buffer
          /\ sent' = sent
          /\ lastMode' = lastMode]_vars

\* C10 witness: a picker opened on a remembered follow-up default was
\* cancelled after a queued message; the text is back, the default kept
C10_Witness ==
    /\ ev.name = "picker_cancel"
    /\ uiCalls = SetEditorText(<<"a">>)
    /\ lastMode = "followUp"
    /\ Len(buffer) = 1
    /\ sent = <<>>

----
(* Properties: the input handler *)

\* a step of the input handler, whichever way it returned
InputStep == ev'.name \in {"input_continue", "picker_open"}

\* the submission passes through: no picker opens, nothing is queued or sent
PassedThrough ==
    /\ ev'.name = "input_continue"
    /\ picker' = picker
    /\ buffer' = buffer
    /\ sent' = sent
    /\ uiCalls' = NoCalls

\* C11: a submission that arrives while the backend is idle, or whose source
\* is programmatic, opens no Mode Picker, leaves the Queue unchanged and
\* passes through to normal handling.
C11_OnlyBusyInteractiveIntercepted ==
    [][(InputStep /\ (idle \/ ev'.src # "interactive")) => PassedThrough]_vars

\* C11 witness: a programmatic submission passed through while the backend
\* was busy and a message was queued
C11_Witness ==
    /\ ev.name = "input_continue"
    /\ ev.src = "extension"
    /\ ~idle
    /\ Len(buffer) = 1
    /\ ~picker.open

\* C12 (as claimed): a busy-time interactive submission that satisfies the
\* bypass predicate opens no Mode Picker, is not appended to the Queue and
\* passes through unmodified.
C12_SlashCommandBypasses ==
    [][(InputStep /\ ev'.src = "interactive" /\ ~idle
            /\ shouldBypassPicker(ev'.text)) => PassedThrough]_vars

\* the claim's wording of the predicate: the trimmed text starts with "/"
\* and its first token (up to the first blank) is "/" alone or "/" followed
\* only by command-name characters
CommandShaped(text) ==
    LET t == Trim(text) IN
    /\ t # <<>>
    /\ t[1] = "/"
    /\ \E k \in 1..Len(t) :
          /\ k = Len(t) \/ t[k + 1] = Blank
          /\ \A j \in 1..k : t[j] # Blank
          /\ \A j \in 2..k : t[j] \in NameChars

\* C13: the bypass predicate is true exactly for a text whose trimmed form
\* starts with "/" and whose first token is "/" alone or "/" followed only by
\* letters, digits, ":", "_" or "-"; it is false for a text that does not
\* start with "/" and for a first token with a further "/"; it gives the
\* results the tests expect.
C13_BypassPredicateShape ==
    /\ ev.name \in {"input_continue", "picker_open"} =>
          /\ shouldBypassPicker(ev.text) <=> CommandShaped(ev.text)
          /\ (Trim(ev.text) # <<>> /\ Head(Trim(ev.text)) # "/") =>
                ~shouldBypassPicker(ev.text)
    /\ \A t \in TestCases : shouldBypassPicker(t.text) = t.bypass

\* C13 witness: a command with an argument was submitted and the predicate
\* holds of it
C13_Witness ==
    /\ ev.name \in {"input_continue", "picker_open"}
    /\ ev.text = <<"/", "a", Blank, "a">>
    /\ shouldBypassPicker(ev.text)

\* C14: on a limited terminal a busy-time interactive submission opens no
\* Mode Picker, leaves the Queue unchanged and continues to default handling.
C14_LimitedTerminalPassesThrough ==
    [][(InputStep /\ ev'.src = "interactive" /\ ~idle /\ ev'.term = "limited")
          => PassedThrough]_vars

\* C14 witness: a non-blank interactive submission passed through on a
\* limited terminal while a message was queued
C14_Witness ==
    /\ ev.name = "input_continue"
    /\ ev.src = "interactive"
    /\ ev.term = "limited"
    /\ Trim(ev.text) # <<>>
    /\ ~idle
    /\ Len(buffer) = 1
    /\ ~picker.open

----
(* Properties: session reset, remembered mode, edit on an empty Queue *)

SessionStep == ev'.name \in {"session_start", "session_switch"}

\* C15: on session_start and on session_switch the Queue becomes empty and
\* the status display is cleared, whatever the Queue held, and no entry is
\* dispatched.
C15_SessionResetClearsQueue ==
    [][SessionStep => (buffer' = <<>> /\ ~widget' /\ sent' = sent)]_vars

\* C15 witness: a session switch after two messages were queued and none
\* was dispatched; the Queue is empty and the display cleared
C15_Witness ==
    /\ ev.name = "session_switch"
    /\ idCounter = 2
    /\ sent = <<>>
    /\ buffer = <<>>
    /\ ~widget

\* C16: a Mode Picker opens with selected equal to the mode of the most
\* recent picker session that ended with select, steer if none has; only a
\* select changes that default, a cancel does not.
C16_PickerStartsOnLastSelected ==
    /\ []((idCounter + NumDirect = 0) => lastMode = "steer")
    /\ [][/\ ev'.name = "picker_open" => picker'.selected = lastMode
          /\ ev'.name = "picker_select" => lastMode' = picker.selected
          /\ ev'.name # "picker_select" => lastMode' = lastMode]_vars

\* C16 witness: a picker opened on followUp while the follow-up selected in
\* the session before it is still queued
C16_Witness ==
    /\ ev.name = "picker_open"
    /\ picker.open
    /\ picker.selected = "followUp"
    /\ lastMode = "followUp"
    /\ Len(buffer) = 1

\* C17 (as claimed): session_start and session_switch reset the remembered
\* mode to its initial default.
C17_SessionResetsMode ==
    [][SessionStep => lastMode' = "steer"]_vars

\* C17 (amended): session_start and session_switch leave the remembered mode
\* as it is, so the first picker of a session starts on the mode selected
\* last, also when that was in a previous session.
C17_SessionKeepsMode ==
    [][/\ SessionStep => lastMode' = lastMode
       /\ (ev.name \in {"session_start", "session_switch"}
               /\ ev'.name = "picker_open") => picker'.selected = lastMode]_vars

\* C17 witness: a session switch emptied the Queue and the remembered mode
\* is still the followUp selected before it
C17_Witness ==
    /\ ev.name = "session_switch"
    /\ lastMode = "followUp"
    /\ buffer = <<>>
    /\ idCounter = 1
    /\ sent = <<>>

\* C18: the edit-queue shortcut or command on an empty Queue opens no editor
\* session: it only notifies, the Queue stays empty, nothing is dispatched
\* and the editing guard is not set: the guard is set only while an editor
\* session is open, so no later flush is suppressed.
C18_EditOnEmptyQueueOnlyNotifies ==
  /\ [](~editor.open => ~editingQueue)
  /\
    [][(ev'.name \in {"edit_empty", "edit_open"} /\ Len(buffer) = 0) =>
          /\ ev'.name = "edit_empty"
          /\ uiCalls' = Notify("No queued messages", <<>>)
          /\ buffer' = <<>>
          /\ sent' = sent
          /\ ~editor'.open
          /\ ~editingQueue']_vars

\* C18 witness: the notification was shown on a Queue emptied by an earlier
\* dispatch; no editor is open and the guard is not set
C18_Witness ==
    /\ ev.name = "edit_empty"
    /\ uiCalls = Notify("No queued messages", <<>>)
    /\ ~editingQueue
    /\ ~editor.open
    /\ buffer = <<>>
    /\ Len(sent) = 1

----
(* Properties: status display, ids *)

\* C19: the status display is set if and only if the Queue is non-empty,
\* after every handler, and when set it lists the current Queue entries in
\* order, each with its mode tag and text.
C19_WidgetTracksQueue ==
    /\ widget <=> Len(buffer) # 0
    /\ widget =>
          /\ Len(widgetLines) = Len(buffer) + 1
          /\ \A k \in 1..Len(buffer) :
                /\ widgetLines[k].text = buffer[k].text
                /\ widgetLines[k].prefix = "Steer" <=> buffer[k].mode = "steer"

\* C19 witness: agent_end dispatched the first of two queued messages and
\* the display lists the one that is left
C19_Witness ==
    /\ ev.name = "agent_end"
    /\ Len(sent) = 1
    /\ Len(buffer) = 1
    /\ widget
    /\ widgetLines[1].text = buffer[1].text

\* no two entries of a list share an id
UniqueIds(items) ==
    \A i, j \in 1..Len(items) : i # j => items[i].id # items[j].id

\* C20: no two entries of the live Queue share an id, and no two entries of
\* an open Queue Editor's items share an id.
C20_IdsUnique ==
    /\ UniqueIds(buffer)
    /\ editor.open => UniqueIds(editor.items)

\* C20 witness: an editor session is open on two entries, reordered, while
\* the live Queue holds the same two
C20_Witness ==
    /\ editor.open
    /\ Len(editor.items) = 2
    /\ Len(buffer) = 2
    /\ editor.items[1].id = buffer[2].id
    /\ editor.items[1].id # editor.items[2].id

----
(* Properties: Queue Store removals *)

\* shiftNextSteer applied to a list: the earliest steer-tagged entry is
\* returned and only it is missing afterwards; nothing happens without one
PopFirstSteerOk(q) ==
    LET r == shiftNextSteer(q) IN
    IF \E i \in 1..Len(q) : q[i].mode = "steer"
    THEN \E i \in 1..Len(q) :
            /\ IsFirstSteer(q, i)
            /\ r.msg = <<q[i]>>
            /\ r.buffer = Without(q, i)
    ELSE r.msg = <<>> /\ r.buffer = q

\* C21: popFirst(isSteer) removes and returns exactly the earliest
\* steer-tagged entry and leaves every other entry, later steer-tagged ones
\* included, in its order; with no steer-tagged entry it returns nothing and
\* leaves the Queue unchanged. Stated of every list the store holds or is
\* about to hold: the Queue and the list under the Queue Editor.
C21_PopFirstSteer ==
    /\ PopFirstSteerOk(buffer)
    /\ editor.open => PopFirstSteerOk(editor.items)

\* a busy save pulled the first of two steer-tagged entries from behind a
\* follow-up: the follow-up and the later steer are still queued, in order
C21_Witness ==
    /\ ev.name = "editor_save"
    /\ Len(sent) = 1
    /\ sent[1].deliverAs = "steer"
    /\ Len(buffer) = 2
    /\ buffer[1].mode = "followUp"
    /\ buffer[2].mode = "steer"
    /\ sent[1].id > buffer[1].id
    /\ sent[1].id < buffer[2].id

\* shiftNext applied to a list
PopFrontOk(q) ==
    LET r == shiftNext(q) IN
    IF Len(q) = 0
    THEN /\ r.msg = <<>>
         /\ r.buffer = q
         /\ shiftNext(r.buffer) = r
    ELSE /\ r.msg = <<q[1]>>
         /\ r.buffer = Without(q, 1)

\* C22: popFront removes and returns the head of a non-empty Queue and
\* leaves the rest in order; on an empty Queue it returns no message and
\* leaves the Queue unchanged, so that repeated calls are no-ops.
C22_PopFront ==
    /\ PopFrontOk(buffer)
    /\ editor.open => PopFrontOk(editor.items)

\* an idle save flushed the head of three entries: the two behind it are
\* still queued, in order
C22_Witness ==
    /\ ev.name = "editor_save"
    /\ Len(sent) = 1
    /\ sent[1].deliverAs = "none"
    /\ Len(buffer) = 2
    /\ sent[1].id \notin {buffer[k].id : k \in 1..2}
    /\ editor = NoPopup

----
(* Properties: Mode Picker reducer *)

\* the keys the picker toggles on, and the keys it gives a meaning to
ToggleKeys == {"tab", "up", "down"}

PickerKeys == ToggleKeys \cup {"left", "right", "return", "escape"}

\* C23: in the Mode Picker tab, up and down each toggle `selected` between
\* steer and followUp, so that two toggles restore it; left sets steer and
\* right sets followUp whatever it was; any other non-terminal token leaves
\* `selected` unchanged and emits nothing; no input changes messageText.
\* Stated of every open picker: the reducer applied to its state for every
\* key, and the state a key has just left behind.
C23_PickerNavigation ==
    picker.open =>
        LET cur == picker.selected
            flipped == IF cur = "steer" THEN "followUp" ELSE "steer"
        IN /\ \A data \in ToggleKeys :
                 /\ handleModePickerInput(cur, data) =
                        [selected |-> flipped, action |-> "none"]
                 /\ \A again \in ToggleKeys :
                        handleModePickerInput(flipped, again).selected = cur
           /\ handleModePickerInput(cur, "left") =
                  [selected |-> "steer", action |-> "none"]
           /\ handleModePickerInput(cur, "right") =
                  [selected |-> "followUp", action |-> "none"]
           /\ \A data \in Keys \ PickerKeys :
                  handleModePickerInput(cur, data) =
                      [selected |-> cur, action |-> "none"]
           /\ ev.name \in {"picker_open", "picker_key"} =>
                  picker.messageText = ev.text
           /\ (ev.name = "picker_key" /\ ev.key = "left") => cur = "steer"
           /\ (ev.name = "picker_key" /\ ev.key = "right") => cur = "followUp"
           /\ ev.name = "picker_open" => cur = lastMode

\* right was pressed in a picker that opened on followUp: it stays there
C23_Witness ==
    /\ picker.open
    /\ ev.name = "picker_key"
    /\ ev.key = "right"
    /\ lastMode = "followUp"
    /\ picker.selected = "followUp"
    /\ picker.messageText = <<"a">>

\* C24: after any sequence of picker inputs, enter emits select carrying
\* the current `selected` (not the one the picker opened on) and escape
\* emits cancel; neither changes `selected`. Stated of the reducer in every
\* open picker, and of the step that resolves the picker with a mode.
C24_PickerTerminalKeys ==
    /\ [](picker.open =>
            /\ handleModePickerInput(picker.selected, "return") =
                   [selected |-> picker.selected, action |-> "select"]
            /\ handleModePickerInput(picker.selected, "escape") =
                   [selected |-> picker.selected, action |-> "cancel"])
    /\ [][ev'.name = "picker_select" =>
            /\ picker.open
            /\ ev'.src = picker.selected
            /\ ev'.text = picker.messageText]_vars

\* the first picker of the process opened on steer (the initial lastMode),
\* was toggled, and enter queued the message as a follow-up
C24_Witness ==
    /\ ev.name = "picker_select"
    /\ ev.src = "followUp"
    /\ idCounter = 1
    /\ NumDirect = 0
    /\ Len(buffer) = 1
    /\ buffer[1].mode = "followUp"

----
(* Properties: Queue Editor reducer, list mode *)

\* the editor is open in list mode on a non-empty list
ListState ==
    /\ editor.open
    /\ editor.mode = "list"
    /\ Len(editor.items) > 0

\* the reducer applied to the open editor for one key
OnKey(data) == handleQueueEditorInput(editor, data, <<>>)

\* `s` with the entries at positions i and j exchanged
Swapped(s, i, j) == [s EXCEPT ![i] = s[j], ![j] = s[i]]

\* the ids of a list, in order
IdsOf(items) == [k \in 1..Len(items) |-> items[k].id]

\* the mode tags of a list, in order
ModesOf(items) == [k \in 1..Len(items) |-> items[k].mode]

\* C25: in list mode j swaps the selected entry with its lower neighbour
\* and k with its upper neighbour; `selected` moves with the entry (+1 for
\* j, -1 for k) and every other entry keeps its position; k at index 0 and
\* j at the last index change nothing.
C25_MoveIsAdjacentSwap ==
    ListState =>
        LET i == editor.selected + 1
            n == Len(editor.items)
        IN /\ \A data \in moveDownKeys :
                 OnKey(data) =
                     Reduced(IF i < n
                             THEN [editor EXCEPT
                                      !.items = Swapped(editor.items, i, i + 1),
                                      !.selected = editor.selected + 1]
                             ELSE editor, "none")
           /\ \A data \in moveUpKeys :
                 OnKey(data) =
                     Reduced(IF i > 1
                             THEN [editor EXCEPT
                                      !.items = Swapped(editor.items, i, i - 1),
                                      !.selected = editor.selected - 1]
                             ELSE editor, "none")

\* the second of three entries was moved to the top, the cursor is on it
C25_Witness ==
    /\ ListState
    /\ IdsOf(editor.items) = <<1, 0, 2>>
    /\ editor.selected = 0
    /\ ModesOf(editor.items) = <<"followUp", "followUp", "followUp">>

\* the list and cursor of the example: [A(steer), B(followUp), C(steer)]
\* with the cursor on B
ExampleGiven ==
    /\ ListState
    /\ ModesOf(editor.items) = <<"steer", "followUp", "steer">>
    /\ editor.selected = 1

\* C26 as the spec has it: given items [A(steer), B(followUp), C(steer)]
\* with selected=1, j yields [B, A, C] with selected=2.
C26_ExampleAsWritten ==
    ExampleGiven =>
        LET r == OnKey("j").state
        IN /\ r.items = <<editor.items[2], editor.items[1], editor.items[3]>>
           /\ r.selected = 2

\* C26: given items [A(steer), B(followUp), C(steer)] with selected=1,
\* j yields [A, C, B] with selected=2: B is exchanged with its lower
\* neighbour C, and A is not touched.
C26_ExampleMoveDown ==
    ExampleGiven =>
        LET r == OnKey("j")
        IN /\ r.state.items = <<editor.items[1], editor.items[3], editor.items[2]>>
           /\ r.state.selected = 2
           /\ r.state.mode = "list"
           /\ r.action = "none"

\* the list of the example after j: [A, C, B], the cursor on B
C26_Witness ==
    /\ ListState
    /\ IdsOf(editor.items) = <<0, 2, 1>>
    /\ ModesOf(editor.items) = <<"steer", "steer", "followUp">>
    /\ editor.selected = 2

\* C27: d, delete and backspace remove exactly the selected entry and keep
\* the order of the others; `selected` becomes min(selected, max(0,
\* length-1)) for the new length: deleting the last of three entries leaves
\* selected=1, deleting the sole entry leaves an empty list with selected=0.
C27_DeleteSelected ==
    ListState =>
        LET i == editor.selected + 1
            n == Len(editor.items)
        IN \A data \in deleteKeys :
              LET r == OnKey(data) IN
              /\ r.action = "none"
              /\ r.state.open
              /\ r.state.mode = "list"
              /\ r.state.items = Without(editor.items, i)
              /\ r.state.selected = Min(editor.selected, Max(0, n - 2))
              /\ (n = 3 /\ i = 3) => r.state.selected = 1
              /\ n = 1 => r.state.items = <<>> /\ r.state.selected = 0

\* the last of three entries was deleted: two are left, in their order,
\* the cursor on the second
C27_Witness ==
    /\ ListState
    /\ Len(buffer) = 3
    /\ IdsOf(editor.items) = <<0, 1>>
    /\ editor.selected = 1

\* C28: `selected` is a valid index into items (0 <= selected <
\* items.length) whenever items is non-empty, and 0 when items is empty.
C28_SelectedIsValidIndex ==
    editor.open =>
        IF Len(editor.items) = 0
        THEN editor.selected = 0
        ELSE editor.selected \in 0..(Len(editor.items) - 1)

\* every entry of a three-entry list was deleted
C28_Witness ==
    /\ editor.open
    /\ Len(buffer) = 3
    /\ editor.items = <<>>
    /\ editor.selected = 0

\* C29: up and down move `selected` by exactly one, clamped to
\* [0, length-1], and change nothing in items.
C29_CursorMoves ==
    ListState =>
        LET n == Len(editor.items) IN
        /\ OnKey("up") =
               Reduced([editor EXCEPT !.selected =
                           IF editor.selected = 0 THEN 0
                           ELSE editor.selected - 1], "none")
        /\ OnKey("down") =
               Reduced([editor EXCEPT !.selected =
                           IF editor.selected = n - 1 THEN n - 1
                           ELSE editor.selected + 1], "none")

\* the cursor went down to the last of three entries, nothing else changed
C29_Witness ==
    /\ ListState
    /\ editor.items = buffer
    /\ Len(buffer) = 3
    /\ editor.selected = 2

\* C30: tab flips the mode of the selected entry between steer and
\* followUp and changes nothing else: not its id or text, not its position,
\* not any other entry, not the order, the cursor or the sub-mode.
C30_TabTogglesSelected ==
    ListState =>
        LET i == editor.selected + 1
            r == OnKey("tab")
        IN /\ r.action = "none"
           /\ r.state.open
           /\ r.state.mode = "list"
           /\ r.state.selected = editor.selected
           /\ Len(r.state.items) = Len(editor.items)
           /\ r.state.items[i].mode \in Modes \ {editor.items[i].mode}
           /\ r.state.items[i].id = editor.items[i].id
           /\ r.state.items[i].text = editor.items[i].text
           /\ \A k \in 1..Len(editor.items) :
                  k # i => r.state.items[k] = editor.items[k]

\* the second of three follow-ups was tagged steer, the others are as they
\* were
C30_Witness ==
    /\ ListState
    /\ Len(buffer) = 3
    /\ IdsOf(editor.items) = <<0, 1, 2>>
    /\ ModesOf(editor.items) = <<"followUp", "steer", "followUp">>
    /\ editor.selected = 1
    /\ \A k \in 1..3 : editor.items[k].text = buffer[k].text

----
(* Properties: Queue Editor reducer, edit mode, save, empty list *)

\* the editor is open in edit mode
EditState ==
    /\ editor.open
    /\ editor.mode = "edit"
    /\ Len(editor.items) > 0

\* what the inline editor can hold when a key reaches it
InlineValues == {editor.items[editor.selected + 1].text} \cup DraftValues

\* C31: in edit sub-mode no input token has a list-mode effect: every
\* token (enter, escape, tab, j, k, d included) goes to the inline editor,
\* the handler emits no save or cancel, and the order, length, tags and
\* selected index of items are unchanged.
C31_EditModeIsStrict ==
    EditState =>
        \A data \in Keys, typed \in InlineValues :
            LET r == handleQueueEditorInput(editor, data, typed) IN
            /\ r.action = "none"
            /\ r.state.open
            /\ r.state.selected = editor.selected
            /\ Len(r.state.items) = Len(editor.items)
            /\ IdsOf(r.state.items) = IdsOf(editor.items)
            /\ ModesOf(r.state.items) = ModesOf(editor.items)
            /\ data \notin {"return", "escape"} => r.state = editor

\* the inline editor is open on the second of three entries, after a
\* reorder and a toggle
C31_Witness ==
    /\ EditState
    /\ Len(editor.items) = 3
    /\ editor.selected = 1
    /\ IdsOf(editor.items) = <<1, 0, 2>>
    /\ ModesOf(editor.items) = <<"followUp", "steer", "followUp">>

\* C32: leaving edit sub-mode always returns to list mode: submit with
\* non-blank trimmed text writes the trimmed text into the selected entry
\* only; submit with blank or whitespace-only text, and escape, leave every
\* entry's text unchanged.
C32_LeavingEditMode ==
    EditState =>
        LET i == editor.selected + 1 IN
        /\ \A typed \in InlineValues :
              handleQueueEditorInput(editor, "return", typed).state =
                  IF Trim(typed) # <<>>
                  THEN [editor EXCEPT !.mode = "list",
                                      !.items[i].text = Trim(typed)]
                  ELSE [editor EXCEPT !.mode = "list"]
        /\ \A typed \in InlineValues :
              handleQueueEditorInput(editor, "escape", typed).state =
                  [editor EXCEPT !.mode = "list"]

\* back in list mode with the trimmed text written into the second entry
\* only
C32_Witness ==
    /\ ListState
    /\ Len(editor.items) = 3
    /\ editor.selected = 1
    /\ editor.items[2].text = <<"c">>
    /\ editor.items[1].text = <<"a">>
    /\ editor.items[3].text = <<"a">>

\* C34: whenever the Queue Editor's items list is empty, enter and escape
\* both emit save with an empty list, and every other token emits nothing
\* and changes no state.
C34_EmptyListKeys ==
    (editor.open /\ Len(editor.items) = 0) =>
        \A data \in Keys :
            LET r == handleQueueEditorInput(editor, data, <<>>) IN
            /\ r.state = editor
            /\ r.action = IF data \in {"return", "escape"} THEN "save" ELSE "none"
            /\ r.action = "save" => r.state.items = <<>>

\* escape on a list emptied by deletes was committed as a save of nothing
C34_Witness ==
    /\ ev.name = "editor_save"
    /\ ev.key = "escape"
    /\ buffer = <<>>
    /\ sent = <<>>
    /\ ~editingQueue

\* the dispatches of the step
NewlySent == SubSeq(sent', Len(sent) + 1, Len(sent'))

\* the step committed exactly `items`: what the Queue holds afterwards and
\* what was dispatched from it are together those entries, in that order
\* and with those tags and texts
Committed(items) ==
    \/ /\ NewlySent = <<>>
       /\ buffer' = items
    \/ /\ Len(NewlySent) = 1
       /\ \E i \in 1..Len(items) :
             /\ buffer' = Without(items, i)
             /\ NewlySent[1].id = items[i].id
             /\ NewlySent[1].text = items[i].text

\* C33: in list mode with non-empty items enter emits save carrying
\* exactly the current items, in their current order and with their current
\* tags and texts, whatever reorder, toggle, edit and delete operations
\* preceded it. Stated of the reducer in every list-mode state and of the
\* step that commits what the save carries.
C33_SaveCarriesCurrentItems ==
    /\ [](ListState => OnKey("return") = Reduced(editor, "save"))
    /\ [][(ev'.name = "editor_save" /\ ev'.key = "return")
            => (editor.open /\ Committed(editor.items))]_vars

\* a busy save after a delete, a reorder and an inline edit: the Queue is
\* the edited list
C33_Witness ==
    /\ ev.name = "editor_save"
    /\ ev.key = "return"
    /\ sent = <<>>
    /\ IdsOf(buffer) = <<2, 0>>
    /\ buffer[1].text = <<"c">>
    /\ buffer[2].text = <<"a">>
    /\ ModesOf(buffer) = <<"followUp", "followUp">>

----
(* Properties: the live Queue *)

\* C35: the Queue Editor works on a private clone: between the opening of
\* a session and its terminal action no editor operation (reorder, toggle,
\* inline edit, delete) changes the order, tags, texts or membership of the
\* live Queue.
C35_EditorWorksOnClone ==
    /\ [][ev'.name = "editor_key" =>
            (buffer' = buffer /\ widget' = widget /\ sent' = sent)]_vars
    /\ [](editor.open => buffer = QueuedFollowUps(Len(buffer)))

\* the clone has lost an entry and has been reordered, retagged and edited;
\* the live Queue still holds the three follow-ups the session opened on
C35_Witness ==
    /\ editor.open
    /\ ev.name = "editor_key"
    /\ buffer = QueuedFollowUps(3)
    /\ IdsOf(editor.items) = <<2, 0>>
    /\ editor.items[1].mode = "steer"
    /\ editor.items[2].text = <<"c">>

\* the ids of a list, as a set
IdSet(items) == {items[k].id : k \in 1..Len(items)}

\* C36: an entry leaves the live Queue only by being dispatched, by having
\* been deleted in an editor session that is then saved, or by a session
\* start/switch reset; no other event (picker cancel, editor cancel,
\* navigation, a priority pull that finds no steer, a flush on an empty
\* Queue) removes an entry.
C36_EntriesLeaveOnlyByRule ==
    [][buffer' # buffer =>
          \A k \in 1..Len(buffer) :
              buffer[k].id \notin IdSet(buffer') =>
                  \/ \E j \in 1..Len(NewlySent) : NewlySent[j].id = buffer[k].id
                  \/ /\ ev'.name = "editor_save"
                     /\ editor.open
                     /\ buffer[k].id \notin IdSet(editor.items)
                  \/ ev'.name \in {"session_start", "session_switch"}]_vars

\* a busy save of a session in which the first of two follow-ups was
\* deleted: it is gone from the Queue and was never dispatched
C36_Witness ==
    /\ ev.name = "editor_save"
    /\ ev.key = "return"
    /\ idCounter = 2
    /\ IdsOf(buffer) = <<1>>
    /\ \A k \in 1..Len(sent) : sent[k].id = NoId

\* the dispatches that were Queue entries, in the order they were made
SentFromQueue == SelectSeq(sent, LAMBDA m : m.id # NoId)

\* ids are given out in the order of the appends: a list is in append
\* order when its ids increase
InAppendOrder(ids) ==
    \A i, j \in 1..Len(ids) : i < j => ids[i] < ids[j]

\* C37: for any two follow-ups a and b where a was appended to the Queue
\* before b, if no editor commit reorders, retags or deletes them and no
\* session reset occurs, a is dispatched before b: the dispatches made from
\* the Queue are in append order, and whatever is still queued was appended
\* after everything dispatched and is queued in append order.
C37_FollowUpsDispatchedInOrder ==
    /\ InAppendOrder(IdsOf(SentFromQueue) \o IdsOf(buffer))
    /\ \A k \in 1..Len(buffer) : buffer[k].mode = "followUp"

\* two follow-ups were queued and both were dispatched, the older first
C37_Witness ==
    /\ IdsOf(SentFromQueue) = <<0, 1>>
    /\ buffer = <<>>
    /\ ev.name = "agent_end"

----
(* Properties: delivery in the end *)

\* the ids a Queue entry can have
QueueIds == 0..(MaxMsgs - 1)

\* agent_end has just been held back: the backend finished its task while
\* an editor session was open on a non-empty Queue
HeldBack ==
    /\ ev.name = "agent_end"
    /\ editor.open
    /\ editingQueue
    /\ idle
    /\ buffer # <<>>

\* C38: every message appended to the Queue is eventually dispatched or
\* removed by a committed delete or a session reset, provided every popup
\* is eventually closed and the backend eventually finishes each task; in
\* particular the entries held back because the backend became idle while
\* an edit session was open leave the Queue after that session has ended,
\* by save or by cancel, without a further submission.
C38_HeldBackEventuallyDelivered ==
    \A id \in QueueIds :
        (HeldBack /\ id \in IdSet(buffer)) ~> (id \notin IdSet(buffer))

----
(* Properties: dispatch history *)

\* C39: no queued message is dispatched more than once: across every
\* interleaving of submissions, lifecycle flushes, priority pulls and editor
\* commits each message id is dispatched at most once, and an entry that
\* has been dispatched is not in the live Queue.
C39_DispatchedAtMostOnce ==
    /\ \A i, j \in 1..Len(SentFromQueue) :
          SentFromQueue[i].id = SentFromQueue[j].id => i = j
    /\ \A i \in 1..Len(SentFromQueue) :
          SentFromQueue[i].id \notin IdSet(buffer)

\* two Queue entries were dispatched, one by a priority pull and one by a
\* lifecycle flush, and the Queue is empty
C39_Witness ==
    /\ Len(SentFromQueue) = 2
    /\ \E i \in 1..2 : SentFromQueue[i].deliverAs = "steer"
    /\ \E i \in 1..2 : SentFromQueue[i].deliverAs # "steer"
    /\ ev.name = "agent_end"
    /\ buffer = <<>>

\* the ids queued or dispatched from the Queue after the step
LiveAfterStep ==
    IdSet(buffer') \cup ({NewlySent[j].id : j \in 1..Len(NewlySent)} \ {NoId})

\* C40: after a session_start or session_switch no message queued before
\* that event is ever dispatched or reappears in the Queue, also when a
\* Queue Editor session opened before the event is saved after it. The
\* event empties the Queue, so the claim is that nothing comes into the
\* Queue, or is dispatched from it, but what is queued at that moment or
\* submitted at that moment (the id the counter is about to give out).
C40_ResetDropsOldMessages ==
    [][\A id \in LiveAfterStep : id \in IdSet(buffer) \/ id = idCounter]_vars

====
